---- MODULE Spec2Model ----
(***************************************************************************)
(* Model of vanna.core.registry.ToolRegistry (src/src/vanna/core/          *)
(* registry.py) and of the Tool base class (src/src/vanna/core/tool/       *)
(* base.py): the tool catalog, the group-based access check, schema        *)
(* listing and the execute pipeline                                        *)
(* resolve -> authorize -> validate -> transform -> audit -> execute ->    *)
(* stamp -> audit -> return.                                               *)
(***************************************************************************)
EXTENDS Integers, Sequences, FiniteSets, TLC

VARIABLES
    _tools,          \* ToolRegistry._tools: insertion-ordered dict, a sequence of [key, tool]
    audit_logger,    \* ToolRegistry.audit_logger: "None" or "logger"
    audit_config,    \* ToolRegistry.audit_config: the AuditConfig flags
    transform_impl,  \* which transform_args the registry class has: "default" or "override"
    pc,              \* position of the execute coroutine
    tool_call,       \* execute's argument tool_call
    context,         \* execute's argument context
    tool,            \* execute's local `tool`
    args,            \* execute's locals validated_args / final_args
    outcome,         \* how execute ended: "none", "returned", "raised"
    result,          \* the ToolResult execute returned
    trace,           \* collaborator calls made by the running execute, in order
    last,            \* the last registry operation called and what it gave back
    perm,            \* one evaluation of _validate_tool_permissions on its own
    suspended,       \* the frames of the other execute coroutines, awaiting their turn
    registered       \* the register_local_tool calls that succeeded, in call order

vars == << _tools, audit_logger, audit_config, transform_impl, pc, tool_call,
           context, tool, args, outcome, result, trace, last, perm, suspended, registered >>

frame == << pc, tool_call, context, tool, args, outcome, result, trace >>
registry == << _tools, audit_logger, audit_config, transform_impl >>

----------------------------------------------------------------------------
(* Bounds and input domains                                                *)

\* longest group list drawn for the stand-alone access check
MaxGroupLen == 2
\* largest difference between the two perf_counter readings, in clock ticks
MaxElapsed == 1
\* largest first perf_counter reading, in clock ticks
MaxStart == 1

Groups == {"admin", "analyst", "viewer"}

GroupLists(n) == UNION {[1..k -> Groups] : k \in 0..n}

None == [none |-> TRUE]

\* Concrete Tool subclasses.  access_groups is the subclass's own property
\* (base.py returns [] unless overridden); args_schema names what
\* get_args_schema does: return the EchoArgs model, or raise.
EchoTool == [name |-> "echo", description |-> "Echo the text",
             access_groups |-> <<>>, args_schema |-> "EchoArgs"]
EchoAnalystTool == [name |-> "echo", description |-> "Echo for analysts",
                    access_groups |-> <<"analyst">>, args_schema |-> "EchoArgs"]
PurgeTool == [name |-> "purge", description |-> "Delete data",
              access_groups |-> <<"admin">>, args_schema |-> "EchoArgs"]
BrokenTool == [name |-> "purge", description |-> "Schema unavailable",
               access_groups |-> <<>>, args_schema |-> "raises"]

LocalTools == {EchoTool, EchoAnalystTool, PurgeTool, BrokenTool}

Names == {t.name : t \in LocalTools}

\* access_groups arguments passed to register_local_tool
RegistrationGroups == {<<>>, <<"admin", "analyst">>}

\* user.group_memberships of the callers
Users == {[group_memberships |-> g] :
            g \in {<<>>, <<"admin", "viewer">>, <<"analyst">>, <<"viewer">>}}

\* tool_call.arguments: an untyped mapping, each value tagged with its JSON type
RawArguments == { [text |-> <<"str", "hi">>],
                  [text |-> <<"int", "123">>],
                  [query |-> <<"str", "hi">>] }

RejectionReasons == {"x", "User must have a region assigned"}

\* (logger, flags) pairs a registry is constructed with
AuditSetups ==
    {[logger |-> "logger",
      config |-> [log_tool_access_checks |-> a, log_tool_invocations |-> i,
                  log_tool_results |-> r, sanitize_tool_parameters |-> TRUE]] :
        a \in BOOLEAN, i \in BOOLEAN, r \in BOOLEAN}
    \cup
    {[logger |-> "None",
      config |-> [log_tool_access_checks |-> TRUE, log_tool_invocations |-> TRUE,
                  log_tool_results |-> TRUE, sanitize_tool_parameters |-> TRUE]]}

----------------------------------------------------------------------------
(* Tool and _LocalToolWrapper                                              *)

ToSet(s) == {s[i] : i \in DOMAIN s}

LocalToolWrapper(wrapped_tool, access_groups) ==
    [_wrapped_tool |-> wrapped_tool, _access_groups |-> access_groups]

IsWrapper(t) == "_wrapped_tool" \in DOMAIN t

ToolName(t) == IF IsWrapper(t) THEN t._wrapped_tool.name ELSE t.name

ToolDescription(t) ==
    IF IsWrapper(t) THEN t._wrapped_tool.description ELSE t.description

\* a wrapper that answers with the wrapped tool's own groups
AccessGroupsOfWrapped(t) ==
    IF IsWrapper(t) THEN t._wrapped_tool.access_groups ELSE t.access_groups

AccessGroups(t) == IF IsWrapper(t) THEN t._access_groups ELSE t.access_groups

\* what get_args_schema gives: [raised, model]
GetArgsSchema(t) ==
    LET inner == IF IsWrapper(t) THEN t._wrapped_tool ELSE t
    IN  IF inner.args_schema = "raises"
        THEN [raised |-> TRUE, msg |-> "schema unavailable", model |-> "None"]
        ELSE [raised |-> FALSE, msg |-> "", model |-> inner.args_schema]

\* EchoArgs: one required field, text: str
ModelValidate(model, raw) ==
    IF "text" \notin DOMAIN raw
    THEN [raised |-> TRUE, msg |-> "text: Field required", value |-> None]
    ELSE IF raw.text[1] # "str"
    THEN [raised |-> TRUE, msg |-> "text: Input should be a valid string",
          value |-> None]
    ELSE [raised |-> FALSE, msg |-> "",
          value |-> [model |-> model, text |-> raw.text[2]]]

ModelJsonSchema(model) ==
    [title |-> model, properties |-> <<"text", "string">>, required |-> <<"text">>]

\* Tool.get_schema: [raised, schema]
GetSchema(t) ==
    LET args_model == GetArgsSchema(t)
    IN  IF args_model.raised
        THEN [raised |-> TRUE, msg |-> args_model.msg, schema |-> None]
        ELSE [raised |-> FALSE, msg |-> "",
              schema |-> [name |-> ToolName(t),
                          description |-> ToolDescription(t),
                          parameters |-> ModelJsonSchema(args_model.model),
                          access_groups |-> AccessGroups(t)]]

----------------------------------------------------------------------------
(* ToolRegistry: catalog                                                   *)

Keys(tools) == {tools[i].key : i \in DOMAIN tools}

\* dict.get(name): the entry under name or None
Lookup(tools, name) ==
    IF name \in Keys(tools)
    THEN (CHOOSE i \in DOMAIN tools : tools[i].key = name)
    ELSE 0

GetToolOf(tools, name) ==
    IF Lookup(tools, name) = 0 THEN None ELSE tools[Lookup(tools, name)].tool

\* list(self._tools.keys())
ListToolsOf(tools) == [i \in DOMAIN tools |-> tools[i].key]

\* the tool object register_local_tool stores
RegisteredEntry(t, access_groups) ==
    IF Len(access_groups) > 0
    THEN LocalToolWrapper(t, access_groups)
    ELSE t

\* register_local_tool accepts the call unless the name is taken
RegistrationAlwaysAccepted(tools, t) == TRUE

RegistrationAccepted(tools, t) == t.name \notin Keys(tools)

\* an assignment that keeps nothing else
DictSetAlone(tools, key, entry) == << [key |-> key, tool |-> entry] >>

\* self._tools[key] = entry
DictSet(tools, key, entry) ==
    IF key \in Keys(tools)
    THEN [i \in DOMAIN tools |->
            IF tools[i].key = key THEN [key |-> key, tool |-> entry] ELSE tools[i]]
    ELSE Append(tools, [key |-> key, tool |-> entry])

\* _validate_tool_permissions
ValidateToolPermissionsAllGroups(t, user) ==
    LET tool_access_groups == AccessGroups(t)
    IN  IF Len(tool_access_groups) = 0
        THEN TRUE
        ELSE ToSet(tool_access_groups) \subseteq ToSet(user.group_memberships)

ValidateToolPermissions(t, user) ==
    LET tool_access_groups == AccessGroups(t)
    IN  IF Len(tool_access_groups) = 0
        THEN TRUE
        ELSE LET user_groups == ToSet(user.group_memberships)
                 tool_groups == ToSet(tool_access_groups)
             IN  (user_groups \cap tool_groups) # {}

\* execute's test `if not await self._validate_tool_permissions(tool, context.user)`
AccessDeniedNever(t, user) == FALSE

AccessDenied(t, user) == ~ValidateToolPermissions(t, user)

\* get_schemas without the permission filter
GetSchemasOfUnfiltered(tools, user) ==
    IF \E i \in DOMAIN tools : GetSchema(tools[i].tool).raised
    THEN [raised |-> TRUE, ret |-> <<>>]
    ELSE [raised |-> FALSE,
          ret |-> [i \in DOMAIN tools |-> GetSchema(tools[i].tool).schema]]

\* a listing that is exhausted by its first reading
GetSchemasOfOnce(tools, user) ==
    LET Visible(e) == user = None \/ ValidateToolPermissions(e.tool, user)
        sel == SelectSeq(tools, Visible)
    IN  IF last.op = "get_schemas"
        THEN [raised |-> FALSE, ret |-> << >>]
        ELSE IF \E i \in DOMAIN sel : GetSchema(sel[i].tool).raised
        THEN [raised |-> TRUE, ret |-> << >>]
        ELSE [raised |-> FALSE,
              ret |-> [i \in DOMAIN sel |-> GetSchema(sel[i].tool).schema]]

\* get_schemas: [raised, ret]
GetSchemasOf(tools, user) ==
    LET Visible(e) == user = None \/ ValidateToolPermissions(e.tool, user)
        sel == SelectSeq(tools, Visible)
    IN  IF \E i \in DOMAIN sel : GetSchema(sel[i].tool).raised
        THEN [raised |-> TRUE, ret |-> <<>>]
        ELSE [raised |-> FALSE,
              ret |-> [i \in DOMAIN sel |-> GetSchema(sel[i].tool).schema]]

----------------------------------------------------------------------------
(* ToolResult, messages, audit events                                      *)

EmptyMetadata == {}

\* ToolResult(success=False, result_for_llm=msg, ui_component=None, error=msg)
Failure(msg) ==
    [success |-> FALSE, result_for_llm |-> msg, ui_component |-> "None",
     error |-> msg, metadata |-> EmptyMetadata]

NotFoundMsgNoName(name) == "Tool not found"

NotFoundMsg(name) == "Tool '" \o name \o "' not found"

DeniedMsgNoName(name) == "Insufficient group access"

DeniedMsg(name) == "Insufficient group access for tool '" \o name \o "'"

InvalidMsgNoDiagnostic(diagnostic) == "Invalid arguments"

InvalidMsg(diagnostic) == "Invalid arguments: " \o diagnostic

ExecutionFailedMsgNoText(m) == "Execution failed"

ExecutionFailedMsg(m) == "Execution failed: " \o m

\* (time.perf_counter() - start_time) * 1000
ExecutionTimeMsSwapped(start_time, end_time) == (start_time - end_time) * 1000

ExecutionTimeMs(start_time, end_time) == (end_time - start_time) * 1000

\* a result that is returned without the stamp
StampNothing(r, execution_time_ms) == r

\* result.metadata["execution_time_ms"] = execution_time_ms
Stamp(r, execution_time_ms) ==
    [r EXCEPT !.metadata =
        {kv \in r.metadata : kv[1] # "execution_time_ms"}
            \cup {<<"execution_time_ms", execution_time_ms>>}]

\* a logger that is used whatever the flag says
AuditEnabledAnyFlag(flag) == audit_logger # "None"

\* self.audit_logger and self.audit_config and self.audit_config.<flag>
AuditEnabled(flag) == audit_logger # "None" /\ audit_config[flag]

Event(ev, how, data) == [ev |-> ev, how |-> how, data |-> data]

\* an awaited collaborator either returns or raises
Hows == {"return", "raise"}

AuditFailure == "audit sink down"

\* context.metadata.get("ui_features_available", [])
UiFeatures(ctx) ==
    IF "ui_features_available" \in DOMAIN ctx.metadata
    THEN ctx.metadata.ui_features_available
    ELSE <<>>

\* the audit_logger calls made by _validate_tool_permissions itself: none
PermissionAuditCalls(t, user) == << >>

GetSchemasAuditCallsPerListing(tools, user) ==
    IF user # None /\ tools # << >> /\ AuditEnabled("log_tool_access_checks")
    THEN << Event("log_tool_access_check", "return",
                  [user |-> user, tool_name |-> tools[1].key,
                   access_granted |-> ValidateToolPermissions(tools[1].tool, user),
                   required_groups |-> AccessGroups(tools[1].tool),
                   reason |-> None]) >>
    ELSE << >>

\* the audit_logger calls made by get_schemas, its permission filter
\* included: none
GetSchemasAuditCalls(tools, user) == << >>

Contexts == {[user |-> u, metadata |-> [request |-> "r1"]] : u \in Users}

ToolCalls == {[name |-> n, arguments |-> a] : n \in Names, a \in RawArguments}

----------------------------------------------------------------------------
(* transform_args and the tool body                                        *)

\* the rewriting of the docstring's SecureToolRegistry
Rewritten(a) == [a EXCEPT !.text = a.text \o " WHERE region = 'eu'"]

\* a default that rewrites what it is given
TransformArgsDefaultRewrites(impl, t, a, user, ctx) ==
    IF impl = "default"
    THEN {[how |-> "return", value |-> Rewritten(a), msg |-> ""]}
    ELSE {[how |-> "return", value |-> a, msg |-> ""],
          [how |-> "return", value |-> Rewritten(a), msg |-> ""],
          [how |-> "raise", value |-> None, msg |-> "policy service down"]}
         \cup {[how |-> "reject", value |-> None, msg |-> r] :
                 r \in RejectionReasons}

\* what one call of transform_args may do: the default returns args; an
\* override returns args (changed or not), returns a ToolRejection, or raises
TransformArgs(impl, t, a, user, ctx) ==
    IF impl = "default"
    THEN {[how |-> "return", value |-> a, msg |-> ""]}
    ELSE {[how |-> "return", value |-> a, msg |-> ""],
          [how |-> "return", value |-> Rewritten(a), msg |-> ""],
          [how |-> "raise", value |-> None, msg |-> "policy service down"]}
         \cup {[how |-> "reject", value |-> None, msg |-> r] :
                 r \in RejectionReasons}

\* the tool is run on what validation gave, the transformation dropped
FinalArgsValidated(validated_args, transform_result) == validated_args

\* final_args = transform_result
FinalArgs(validated_args, transform_result) == transform_result.value

\* isinstance(transform_result, ToolRejection)
IsRejectionNever(transform_result) == FALSE

IsRejection(transform_result) == transform_result.how = "reject"

Unwrapped(t) == IF IsWrapper(t) THEN t._wrapped_tool ELSE t

\* what one call of a tool's execute body may do: a success that names the
\* tool, a failure result of the tool's own, or an exception
ToolBody(t, ctx, a) ==
    {[how |-> "return", msg |-> "",
      result |-> [success |-> TRUE,
                  result_for_llm |->
                      t.description \o ": "
                          \o (IF "text" \in DOMAIN a THEN a.text ELSE ""),
                  ui_component |-> "card", error |-> "None",
                  metadata |-> {<<"rows", 1>>}]],
     [how |-> "return", msg |-> "",
      result |-> [success |-> FALSE, result_for_llm |-> "no rows",
                  ui_component |-> "None", error |-> "no rows",
                  metadata |-> {<<"execution_time_ms", 7>>}]],
     [how |-> "raise", msg |-> "boom", result |-> None]}

\* _LocalToolWrapper.execute forwards to the wrapped tool
ToolExecuteOf(t, ctx, a) == ToolBody(Unwrapped(t), ctx, a)

----------------------------------------------------------------------------
(* Initial states                                                          *)

NoPerm == [tool |-> None, user |-> None, done |-> FALSE, ret |-> FALSE]

NoCall == [op |-> "init", raised |-> FALSE, arg |-> None, ret |-> <<>>]

IdleFrame ==
    /\ pc = "idle"
    /\ tool_call = None
    /\ context = None
    /\ tool = None
    /\ args = None
    /\ outcome = "none"
    /\ result = None
    /\ trace = <<>>

\* ToolRegistry.__init__
Init ==
    /\ _tools = <<>>
    /\ \E s \in AuditSetups : audit_logger = s.logger /\ audit_config = s.config
    /\ transform_impl \in {"default", "override"}
    /\ IdleFrame
    /\ last = NoCall
    /\ perm = NoPerm
    /\ suspended = << >>
    /\ registered = << >>

----------------------------------------------------------------------------
(* Registry operations called between execute calls                        *)

ResetFrame ==
    /\ pc' = "idle"
    /\ tool_call' = None
    /\ context' = None
    /\ tool' = None
    /\ args' = None
    /\ outcome' = "none"
    /\ result' = None
    /\ trace' = <<>>

Quiescent == pc \in {"idle", "done"}

\* register_local_tool(tool, access_groups)
RegisterLocalTool(t, access_groups) ==
    /\ Quiescent
    /\ IF ~RegistrationAccepted(_tools, t)
       THEN /\ _tools' = _tools
            /\ registered' = registered
            /\ last' = [op |-> "register_local_tool", raised |-> TRUE,
                        arg |-> [tool |-> t, access_groups |-> access_groups],
                        ret |-> <<>>]
       ELSE /\ _tools' = DictSet(_tools, t.name, RegisteredEntry(t, access_groups))
            /\ registered' = Append(registered,
                                    [tool |-> t, access_groups |-> access_groups])
            /\ last' = [op |-> "register_local_tool", raised |-> FALSE,
                        arg |-> [tool |-> t, access_groups |-> access_groups],
                        ret |-> <<>>]
    /\ ResetFrame
    /\ UNCHANGED << audit_logger, audit_config, transform_impl, perm, suspended >>

\* get_tool(name)
GetTool(name) ==
    /\ Quiescent
    /\ last' = [op |-> "get_tool", raised |-> FALSE, arg |-> [name |-> name],
                ret |-> GetToolOf(_tools, name)]
    /\ ResetFrame
    /\ UNCHANGED << registry, perm, suspended, registered >>

\* list_tools()
ListTools ==
    /\ Quiescent
    /\ last' = [op |-> "list_tools", raised |-> FALSE, arg |-> None,
                ret |-> ListToolsOf(_tools)]
    /\ ResetFrame
    /\ UNCHANGED << registry, perm, suspended, registered >>

\* get_schemas(user), user possibly None; last.prev is the call made just
\* before it when that was a get_schemas too
GetSchemas(user) ==
    /\ Quiescent
    /\ LET r == GetSchemasOf(_tools, user)
       IN  last' = [op |-> "get_schemas", raised |-> r.raised,
                    arg |-> [user |-> user], ret |-> r.ret,
                    prev |-> IF last.op = "get_schemas"
                             THEN [raised |-> last.raised, arg |-> last.arg,
                                   ret |-> last.ret]
                             ELSE None]
    /\ pc' = "idle"
    /\ tool_call' = None
    /\ context' = None
    /\ tool' = None
    /\ args' = None
    /\ outcome' = "none"
    /\ result' = None
    /\ trace' = GetSchemasAuditCalls(_tools, user)
    /\ UNCHANGED << registry, perm, suspended, registered >>

----------------------------------------------------------------------------
(* execute(tool_call, context), one action per stage                       *)

Return(r) == pc' = "done" /\ outcome' = "returned" /\ result' = r

Raise == pc' = "done" /\ outcome' = "raised" /\ result' = None

\* Step 1: look up the tool
ExecuteResolve(tc, ctx) ==
    /\ Quiescent
    /\ tool_call' = tc
    /\ context' = ctx
    /\ args' = None
    /\ trace' = <<>>
    /\ last' = [op |-> "execute", raised |-> FALSE,
                arg |-> [tool_call |-> tc, context |-> ctx], ret |-> <<>>]
    /\ LET t == GetToolOf(_tools, tc.name)
       IN  IF t = None
           THEN tool' = None /\ Return(Failure(NotFoundMsg(tc.name)))
           ELSE tool' = t /\ pc' = "authorize" /\ outcome' = "none" /\ result' = None
    /\ UNCHANGED << registry, perm, suspended, registered >>

\* Step 2: permission check, the denial audited
ExecuteAuthorizeSharedContext ==
    /\ pc = "authorize"
    /\ IF AccessDenied(tool, last.arg.context.user)
       THEN LET msg == DeniedMsg(last.arg.tool_call.name)
            IN  IF AuditEnabled("log_tool_access_checks")
                THEN \E how \in Hows :
                       /\ trace' = Append(trace,
                            Event("log_tool_access_check", how,
                                  [user |-> last.arg.context.user,
                                   tool_name |-> last.arg.tool_call.name,
                                   access_granted |-> FALSE,
                                   required_groups |-> AccessGroups(tool),
                                   reason |-> msg]))
                       /\ IF how = "raise" THEN Raise ELSE Return(Failure(msg))
                ELSE trace' = trace /\ Return(Failure(msg))
       ELSE /\ pc' = "validate"
            /\ UNCHANGED << outcome, result, trace >>
    /\ UNCHANGED << registry, tool_call, context, tool, args, last, perm, suspended, registered >>

ExecuteAuthorize ==
    /\ pc = "authorize"
    /\ IF AccessDenied(tool, context.user)
       THEN LET msg == DeniedMsg(tool_call.name)
                checked == trace \o PermissionAuditCalls(tool, context.user)
            IN  IF AuditEnabled("log_tool_access_checks")
                THEN \E how \in Hows :
                       /\ trace' = Append(checked,
                            Event("log_tool_access_check", how,
                                  [user |-> context.user, tool_name |-> tool_call.name,
                                   access_granted |-> FALSE,
                                   required_groups |-> AccessGroups(tool),
                                   reason |-> msg]))
                       /\ IF how = "raise" THEN Raise ELSE Return(Failure(msg))
                ELSE trace' = checked /\ Return(Failure(msg))
       ELSE /\ pc' = "validate"
            /\ trace' = trace \o PermissionAuditCalls(tool, context.user)
            /\ UNCHANGED << outcome, result >>
    /\ UNCHANGED << registry, tool_call, context, tool, args, last, perm, suspended, registered >>

\* Step 3: get_args_schema and model_validate inside try/except Exception
ExecuteValidate ==
    /\ pc = "validate"
    /\ LET args_model == GetArgsSchema(tool)
           validated == ModelValidate(args_model.model, tool_call.arguments)
       IN  IF args_model.raised
           THEN /\ trace' = Append(trace, Event("get_args_schema", "raise", None))
                /\ Return(Failure(InvalidMsg(args_model.msg)))
                /\ args' = args
           ELSE IF validated.raised
           THEN /\ trace' = trace \o << Event("get_args_schema", "return", None),
                                        Event("model_validate", "raise",
                                              [arguments |-> tool_call.arguments]) >>
                /\ Return(Failure(InvalidMsg(validated.msg)))
                /\ args' = args
           ELSE /\ trace' = trace \o << Event("get_args_schema", "return", None),
                                        Event("model_validate", "return",
                                              [arguments |-> tool_call.arguments]) >>
                /\ args' = validated.value
                /\ pc' = "transform"
                /\ UNCHANGED << outcome, result >>
    /\ UNCHANGED << registry, tool_call, context, tool, last, perm, suspended, registered >>

\* Step 4: transform_args, outside any try
ExecuteTransform ==
    /\ pc = "transform"
    /\ \E transform_result \in
            TransformArgs(transform_impl, tool, args, context.user, context) :
         /\ trace' = Append(trace, Event("transform_args", transform_result.how,
                                         [args |-> args, out |-> transform_result]))
         /\ IF transform_result.how = "raise"
            THEN Raise /\ args' = args
            ELSE IF IsRejection(transform_result)
            THEN Return(Failure(transform_result.msg)) /\ args' = args
            ELSE /\ args' = FinalArgs(args, transform_result)
                 /\ pc' = "audit_access"
                 /\ UNCHANGED << outcome, result >>
    /\ UNCHANGED << registry, tool_call, context, tool, last, perm, suspended, registered >>

\* Step 5a: audit the granted access check
ExecuteAuditAccess ==
    /\ pc = "audit_access"
    /\ IF AuditEnabled("log_tool_access_checks")
       THEN \E how \in Hows :
              /\ trace' = Append(trace,
                   Event("log_tool_access_check", how,
                         [user |-> context.user, tool_name |-> tool_call.name,
                          access_granted |-> TRUE,
                          required_groups |-> AccessGroups(tool),
                          reason |-> "None"]))
              /\ IF how = "raise"
                 THEN Raise
                 ELSE pc' = "audit_invocation" /\ UNCHANGED << outcome, result >>
       ELSE pc' = "audit_invocation" /\ UNCHANGED << outcome, result, trace >>
    /\ UNCHANGED << registry, tool_call, context, tool, args, last, perm, suspended, registered >>

\* Step 5b: audit the invocation
ExecuteAuditInvocation ==
    /\ pc = "audit_invocation"
    /\ IF AuditEnabled("log_tool_invocations")
       THEN \E how \in Hows :
              /\ trace' = Append(trace,
                   Event("log_tool_invocation", how,
                         [user |-> context.user, tool_call |-> tool_call,
                          ui_features |-> UiFeatures(context),
                          sanitize_parameters |->
                              audit_config.sanitize_tool_parameters]))
              /\ IF how = "raise"
                 THEN Raise
                 ELSE pc' = "execute" /\ UNCHANGED << outcome, result >>
       ELSE pc' = "execute" /\ UNCHANGED << outcome, result, trace >>
    /\ UNCHANGED << registry, tool_call, context, tool, args, last, perm, suspended, registered >>

\* Step 6: the tool's execute between two perf_counter readings (the clock is
\* monotonic: the second is the first plus what elapsed), then the stamp
ExecuteTool ==
    /\ pc = "execute"
    /\ \E body \in ToolExecuteOf(tool, context, args),
          start_time \in 0..MaxStart, elapsed \in 0..MaxElapsed :
         /\ trace' = Append(trace, Event("tool.execute", body.how,
                                         [context |-> context, args |-> args,
                                          msg |-> body.msg,
                                          result |-> body.result]))
         /\ IF body.how = "raise"
            THEN Return(Failure(ExecutionFailedMsg(body.msg)))
            ELSE /\ result' = Stamp(body.result,
                                    ExecutionTimeMs(start_time, start_time + elapsed))
                 /\ pc' = "audit_result"
                 /\ outcome' = "none"
    /\ UNCHANGED << registry, tool_call, context, tool, args, last, perm, suspended, registered >>

\* Step 7: audit the result, still inside the try, then return it
ExecuteAuditResult ==
    /\ pc = "audit_result"
    /\ IF AuditEnabled("log_tool_results")
       THEN \E how \in Hows :
              /\ trace' = Append(trace,
                   Event("log_tool_result", how,
                         [user |-> context.user, tool_call |-> tool_call,
                          result |-> result]))
              /\ IF how = "raise"
                 THEN Return(Failure(ExecutionFailedMsg(AuditFailure)))
                 ELSE Return(result)
       ELSE trace' = trace /\ Return(result)
    /\ UNCHANGED << registry, tool_call, context, tool, args, last, perm, suspended, registered >>

Next ==
    \/ \E t \in LocalTools, g \in RegistrationGroups : RegisterLocalTool(t, g)
    \/ \E n \in Names : GetTool(n)
    \/ ListTools
    \/ \E u \in Users \cup {None} : GetSchemas(u)
    \/ \E tc \in ToolCalls, ctx \in Contexts : ExecuteResolve(tc, ctx)
    \/ ExecuteAuthorize
    \/ ExecuteValidate
    \/ ExecuteTransform
    \/ ExecuteAuditAccess
    \/ ExecuteAuditInvocation
    \/ ExecuteTool
    \/ ExecuteAuditResult

Spec == Init /\ [][Next]_vars

----------------------------------------------------------------------------
(* The access check on its own, over every pair of bounded group lists     *)

PermTools ==
    {[name |-> "t", description |-> "d", access_groups |-> g,
      args_schema |-> "EchoArgs"] : g \in GroupLists(MaxGroupLen)}
    \cup {LocalToolWrapper(PurgeTool, g) : g \in GroupLists(MaxGroupLen) \ {<<>>}}

InitPerm ==
    /\ _tools = <<>>
    /\ audit_logger = "None"
    /\ audit_config = [log_tool_access_checks |-> TRUE, log_tool_invocations |-> TRUE,
                       log_tool_results |-> TRUE, sanitize_tool_parameters |-> TRUE]
    /\ transform_impl = "default"
    /\ IdleFrame
    /\ last = NoCall
    /\ suspended = << >>
    /\ registered = << >>
    /\ \E t \in PermTools, g \in GroupLists(MaxGroupLen) :
         perm = [tool |-> t, user |-> [group_memberships |-> g],
                 done |-> FALSE, ret |-> FALSE]

CheckAccess ==
    /\ ~perm.done
    /\ perm' = [perm EXCEPT !.done = TRUE,
                            !.ret = ValidateToolPermissions(perm.tool, perm.user)]
    /\ trace' = trace \o PermissionAuditCalls(perm.tool, perm.user)
    /\ UNCHANGED << registry, pc, tool_call, context, tool, args, outcome, result,
                    last, suspended, registered >>

NextPerm == CheckAccess

SpecPerm == InitPerm /\ [][NextPerm]_vars

----------------------------------------------------------------------------
(* Several execute calls in flight on one registry, the catalog fixed      *)

\* how many execute coroutines there are besides the running one
MaxSuspended == 1

\* the catalog the registration phase leaves: echo as it is, purge with a
\* list of its own
ServingCatalog ==
    DictSet(DictSet(<< >>, "echo", RegisteredEntry(EchoTool, << >>)),
            "purge", RegisteredEntry(PurgeTool, <<"admin", "analyst">>))

\* the calls made concurrently: one that is granted, one that is denied and
\* one whose arguments are invalid
ConcurrentCalls ==
    { [tool_call |-> [name |-> "purge", arguments |-> [text |-> <<"str", "hi">>]],
       context |-> [user |-> [group_memberships |-> <<"analyst">>],
                    metadata |-> [request |-> "r1"]]],
      [tool_call |-> [name |-> "purge", arguments |-> [text |-> <<"str", "hi">>]],
       context |-> [user |-> [group_memberships |-> <<"viewer">>],
                    metadata |-> [request |-> "r1"]]],
      [tool_call |-> [name |-> "echo", arguments |-> [text |-> <<"int", "123">>]],
       context |-> [user |-> [group_memberships |-> <<"viewer">>],
                    metadata |-> [request |-> "r1"]]] }

\* the arguments and locals of the running execute coroutine
Frame ==
    [pc |-> pc, tool_call |-> tool_call, context |-> context, tool |-> tool,
     args |-> args, outcome |-> outcome, result |-> result, trace |-> trace]

NotStarted ==
    [pc |-> "idle", tool_call |-> None, context |-> None, tool |-> None,
     args |-> None, outcome |-> "none", result |-> None, trace |-> << >>]

InitConcurrent ==
    /\ _tools = ServingCatalog
    /\ audit_logger = "logger"
    /\ audit_config = [log_tool_access_checks |-> TRUE, log_tool_invocations |-> TRUE,
                       log_tool_results |-> TRUE, sanitize_tool_parameters |-> TRUE]
    /\ transform_impl = "override"
    /\ IdleFrame
    /\ last = NoCall
    /\ perm = NoPerm
    /\ suspended = [i \in 1..MaxSuspended |-> NotStarted]
    /\ registered = << [tool |-> EchoTool, access_groups |-> << >>],
                       [tool |-> PurgeTool, access_groups |-> <<"admin", "analyst">>] >>

\* at an await the event loop resumes another coroutine; the running one
\* waits with its arguments and locals
Switch(i) ==
    /\ suspended[i] # Frame
    /\ suspended' = [suspended EXCEPT ![i] = Frame]
    /\ pc' = suspended[i].pc
    /\ tool_call' = suspended[i].tool_call
    /\ context' = suspended[i].context
    /\ tool' = suspended[i].tool
    /\ args' = suspended[i].args
    /\ outcome' = suspended[i].outcome
    /\ result' = suspended[i].result
    /\ trace' = suspended[i].trace
    /\ UNCHANGED << registry, last, perm, registered >>

NextConcurrent ==
    \/ \E c \in ConcurrentCalls : ExecuteResolve(c.tool_call, c.context)
    \/ ExecuteAuthorize
    \/ ExecuteValidate
    \/ ExecuteTransform
    \/ ExecuteAuditAccess
    \/ ExecuteAuditInvocation
    \/ ExecuteTool
    \/ ExecuteAuditResult
    \/ \E i \in DOMAIN suspended : Switch(i)

SpecConcurrent == InitConcurrent /\ [][NextConcurrent]_vars

----------------------------------------------------------------------------
(* Properties                                                              *)

\* the collaborator calls named ev that the running execute has made
Calls(ev) == {i \in DOMAIN trace : trace[i].ev = ev}

Raised(ev) == {i \in Calls(ev) : trace[i].how = "raise"}

\* r is a failure ToolResult whose error and result_for_llm are msg
IsFailure(r, msg) ==
    /\ "success" \in DOMAIN r
    /\ r.success = FALSE
    /\ r.result_for_llm = msg
    /\ r.error = msg
    /\ r.ui_component = "None"

\* C1: every execute call ends by returning a ToolResult, whichever stage
\* fails; no exception reaches the caller.
C1_ExecuteAlwaysReturns == pc = "done" => outcome = "returned"

\* C1, the overridden transform_args of the claim: a call whose
\* transform_args raised still ends by returning a ToolResult.
C1_TransformRaiseReturns ==
    (pc = "done" /\ Raised("transform_args") # {}) => outcome = "returned"

\* C2: when the access check on (resolved tool, context.user) is false the
\* call stops at the authorize stage: get_args_schema, model_validate,
\* transform_args and the tool body are never called, and the result that is
\* returned is the failure "Insufficient group access for tool '<name>'".
C2_DeniedNeverExecutes ==
    (tool # None /\ ~ValidateToolPermissions(tool, context.user)) =>
        /\ pc \in {"authorize", "done"}
        /\ Calls("get_args_schema") = {}
        /\ Calls("model_validate") = {}
        /\ Calls("transform_args") = {}
        /\ Calls("tool.execute") = {}
        /\ (outcome = "returned" =>
              IsFailure(result, "Insufficient group access for tool '"
                                     \o tool_call.name \o "'"))

C2_Witness ==
    /\ pc = "done"
    /\ tool # None
    /\ ~ValidateToolPermissions(tool, context.user)
    /\ outcome = "returned"
    /\ IsWrapper(tool)

\* C3: the access check is true exactly when the tool's access groups are
\* empty or some group of the user is one of them; so it is true for every
\* user on an unrestricted tool and false for a user without groups on a
\* restricted one.
C3_AccessRule ==
    perm.done =>
        LET tg == AccessGroups(perm.tool)
            ug == perm.user.group_memberships
        IN  /\ perm.ret <=> (tg = <<>> \/ \E i \in DOMAIN ug, j \in DOMAIN tg :
                                              ug[i] = tg[j])
            /\ (tg = <<>> => perm.ret)
            /\ (tg # <<>> /\ ug = <<>> => ~perm.ret)

C3_Witness ==
    /\ perm.done
    /\ perm.ret
    /\ Len(AccessGroups(perm.tool)) = 2
    /\ Len(perm.user.group_memberships) = 2
    /\ AccessGroups(perm.tool)[1] \notin ToSet(perm.user.group_memberships)
    /\ AccessGroups(perm.tool)[2] = perm.user.group_memberships[1]

\* C4: register_local_tool with a name already in the catalog fails with the
\* conflict error and leaves the catalog as it was, whatever tool object and
\* access_groups the failing call passed.
C4_DuplicateRegistrationRejected ==
    [][(last'.op = "register_local_tool"
          /\ last'.arg.tool.name \in Keys(_tools))
        => (last'.raised /\ _tools' = _tools)]_vars

C4_Witness ==
    /\ last.op = "register_local_tool"
    /\ last.raised
    /\ last.arg.tool = EchoAnalystTool
    /\ last.arg.access_groups = <<"admin", "analyst">>
    /\ GetToolOf(_tools, "echo") = EchoTool
    /\ Len(_tools) = 2

\* C5: when get_args_schema or the validation of tool_call.arguments raises,
\* execute returns the failure "Invalid arguments: <diagnostic>" and neither
\* transform_args nor the tool body is called.
C5_InvalidArguments ==
    (Raised("get_args_schema") \cup Raised("model_validate") # {}) =>
        LET diagnostic ==
              IF Raised("get_args_schema") # {} THEN "schema unavailable"
              ELSE IF "text" \notin DOMAIN tool_call.arguments
              THEN "text: Field required"
              ELSE "text: Input should be a valid string"
        IN  /\ pc = "done"
            /\ outcome = "returned"
            /\ IsFailure(result, "Invalid arguments: " \o diagnostic)
            /\ Calls("transform_args") = {}
            /\ Calls("tool.execute") = {}

C5_Witness ==
    /\ pc = "done"
    /\ Raised("model_validate") # {}
    /\ tool_call.arguments = [text |-> <<"int", "123">>]
    /\ outcome = "returned"

\* C6: when transform_args returns a ToolRejection with reason r, execute
\* returns a failure whose error and result_for_llm are r and the tool body
\* is never called.
C6_RejectionShortCircuits ==
    \A i \in Calls("transform_args") :
        trace[i].how = "reject" =>
            /\ pc = "done"
            /\ outcome = "returned"
            /\ IsFailure(result, trace[i].data.out.msg)
            /\ Calls("tool.execute") = {}

C6_Witness ==
    /\ pc = "done"
    /\ \E i \in Calls("transform_args") :
         trace[i].how = "reject" /\ trace[i].data.out.msg = "x"
    /\ result.error = "x"

\* C7: when the tool body raises an error with message m, execute returns
\* the failure "Execution failed: m" instead of propagating the error.
C7_BodyErrorBecomesResult ==
    \A i \in Raised("tool.execute") :
        /\ pc = "done"
        /\ outcome = "returned"
        /\ IsFailure(result, "Execution failed: " \o trace[i].data.msg)

C7_Witness ==
    /\ pc = "done"
    /\ Raised("tool.execute") # {}
    /\ result.error = "Execution failed: boom"

\* C8: a call naming no registered tool returns the failure
\* "Tool '<name>' not found" without calling any tool, schema or transform
\* hook, and a call naming a registered tool never gets that result.
C8_UnknownToolNotFound ==
    pc # "idle" =>
        LET notFound == "Tool '" \o tool_call.name \o "' not found"
        IN  /\ tool_call.name \notin Keys(_tools) =>
                (pc = "done" /\ outcome = "returned" /\ IsFailure(result, notFound)
                    /\ trace = <<>> /\ tool = None)
            /\ tool_call.name \in Keys(_tools) => ~IsFailure(result, notFound)

C8_Witness ==
    /\ pc = "done"
    /\ tool_call.name = "purge"
    /\ Keys(_tools) = {"echo"}
    /\ outcome = "returned"

\* C9: a tool registered with an empty access_groups argument passes the
\* access check for every user, whatever groups the tool object declares.
C9_EmptyRegistrationOpenToAll ==
    (last.op = "register_local_tool" /\ ~last.raised
        /\ last.arg.access_groups = <<>>)
    => \A u \in Users :
          ValidateToolPermissions(GetToolOf(_tools, last.arg.tool.name), u)

\* C9, on execute: a call naming a tool whose catalog entry is the tool
\* object itself (the form an empty access_groups registers) never ends with
\* the insufficient-group-access result.
C9_EmptyRegistrationNeverDenied ==
    (pc = "done" /\ tool # None /\ ~IsWrapper(tool) /\ outcome = "returned")
    => ~IsFailure(result, "Insufficient group access for tool '"
                              \o tool_call.name \o "'")

\* C10: get_schemas(user) returns, in catalog order, one schema for each
\* registered tool that passes the access check for user and no other;
\* get_schemas(None) returns one schema for every registered tool.
C10_SchemasFiltered ==
    (last.op = "get_schemas" /\ ~last.raised) =>
        LET u == last.arg.user
            ret == last.ret
            visible == {i \in DOMAIN _tools :
                          u = None \/ ValidateToolPermissions(_tools[i].tool, u)}
        IN  /\ Len(ret) = Cardinality(visible)
            /\ {ret[k].name : k \in DOMAIN ret} = {_tools[i].key : i \in visible}
            /\ \A k \in DOMAIN ret :
                 /\ ret[k].access_groups =
                        AccessGroups(GetToolOf(_tools, ret[k].name))
                 /\ ret[k].description =
                        ToolDescription(GetToolOf(_tools, ret[k].name))
            /\ \A k, l \in DOMAIN ret :
                 k < l => Lookup(_tools, ret[k].name) < Lookup(_tools, ret[l].name)
            /\ (u = None => Len(ret) = Len(_tools))

C10_Witness ==
    /\ last.op = "get_schemas"
    /\ ~last.raised
    /\ last.arg.user = [group_memberships |-> <<"viewer">>]
    /\ Len(_tools) = 2
    /\ Len(last.ret) = 1

C10_WitnessUnfiltered ==
    /\ last.op = "get_schemas"
    /\ ~last.raised
    /\ last.arg.user = None
    /\ Len(last.ret) = 2
    /\ \E i \in DOMAIN _tools : AccessGroups(_tools[i].tool) # <<>>

\* C11: a returned result that the tool body produced carries exactly one
\* execution_time_ms entry in its metadata, and its value is not negative.
C11_ExecutionTimeStamped ==
    (pc = "done" /\ outcome = "returned"
        /\ Calls("tool.execute") # {} /\ Raised("tool.execute") = {}
        /\ Raised("log_tool_result") = {})
    => /\ \E kv \in result.metadata : kv[1] = "execution_time_ms" /\ kv[2] >= 0
       /\ Cardinality({kv \in result.metadata : kv[1] = "execution_time_ms"}) = 1
       /\ \A kv \in result.metadata : kv[1] = "execution_time_ms" => kv[2] >= 0

C11_Witness ==
    /\ pc = "done"
    /\ outcome = "returned"
    /\ Raised("tool.execute") = {}
    /\ result.success = FALSE
    /\ result.error = "no rows"
    /\ <<"execution_time_ms", 1000>> \in result.metadata

\* the audit_logger calls recorded in a sequence of collaborator calls
AuditEvents == {"log_tool_access_check", "log_tool_invocation", "log_tool_result"}

AuditCalls(tr) == {i \in DOMAIN tr : tr[i].ev \in AuditEvents}

\* C12: get_schemas and the access predicate emit no audit event, whatever the
\* audit flags are: nothing has been emitted when get_schemas has run, nothing
\* when execute has only evaluated the predicate, and whatever has been
\* emitted was emitted by an execute call.
C12_ListingAndPredicateEmitNothing ==
    /\ last.op = "get_schemas" => trace = << >>
    /\ pc = "validate" => trace = << >>
    /\ AuditCalls(trace) # {} => (last.op = "execute" /\ pc # "idle")

C12_Witness ==
    /\ last.op = "get_schemas"
    /\ ~last.raised
    /\ last.arg.user # None
    /\ Len(last.ret) = 1
    /\ Len(_tools) = 2
    /\ audit_logger # "None"
    /\ audit_config.log_tool_access_checks
    /\ audit_config.log_tool_invocations
    /\ audit_config.log_tool_results

\* C13: get_schemas leaves the catalog, and with it every tool's effective
\* access groups, as it was, and a get_schemas call that follows another one
\* for the same user returns what that one returned, element for element.
C13_SchemasRepeatable ==
    [][last'.op = "get_schemas"
        => /\ _tools' = _tools
           /\ \A i \in DOMAIN _tools :
                AccessGroups(_tools'[i].tool) = AccessGroups(_tools[i].tool)
           /\ (last.op = "get_schemas" /\ last.arg = last'.arg)
                => (last'.raised = last.raised /\ last'.ret = last.ret)]_vars

C13_Witness ==
    /\ last.op = "get_schemas"
    /\ last.prev # None
    /\ last.prev.arg = last.arg
    /\ last.arg.user # None
    /\ ~last.raised
    /\ Len(last.ret) = 1
    /\ Len(_tools) = 2

\* the argument values a tool's execute may be handed
ArgsValues ==
    LET valid == {ModelValidate("EchoArgs", raw) : raw \in RawArguments}
        vals  == {v.value : v \in {w \in valid : ~w.raised}}
    IN  vals \cup {Rewritten(a) : a \in vals}

\* e stands for the tool t: same name, description, argument schema and
\* execute, and t itself is held unchanged inside e
Forwards(e, t) ==
    /\ IsWrapper(e)
    /\ e._wrapped_tool = t
    /\ ToolName(e) = t.name
    /\ ToolDescription(e) = t.description
    /\ GetArgsSchema(e) = GetArgsSchema(t)
    /\ \A ctx \in Contexts, a \in ArgsValues :
         ToolExecuteOf(e, ctx, a) = ToolBody(t, ctx, a)

\* C14: a tool registered with a non-empty access_groups list is stored as an
\* entry that forwards name, description, get_args_schema and execute to the
\* tool and answers access_groups with the list given at registration; the
\* tool itself is kept as it was given. Every wrapper in the catalog forwards
\* to one of the tools that were offered for registration.
C14_WrapperForwards ==
    /\ (last.op = "register_local_tool" /\ ~last.raised
           /\ Len(last.arg.access_groups) > 0)
       => LET e == GetToolOf(_tools, last.arg.tool.name)
          IN  /\ e # None
              /\ Forwards(e, last.arg.tool)
              /\ AccessGroups(e) = last.arg.access_groups
    /\ \A i \in DOMAIN _tools :
         IsWrapper(_tools[i].tool)
         => /\ \E t \in LocalTools : Forwards(_tools[i].tool, t)
            /\ AccessGroups(_tools[i].tool) \in RegistrationGroups \ {<< >>}

C14_Witness ==
    /\ last.op = "register_local_tool"
    /\ ~last.raised
    /\ last.arg.tool = PurgeTool
    /\ last.arg.access_groups = <<"admin", "analyst">>
    /\ AccessGroups(GetToolOf(_tools, "purge")) # PurgeTool.access_groups

\* the names of the audit calls and of the tool's execute, in call order
AuditOrder(tr) ==
    LET Kept(e) == e.ev \in AuditEvents \cup {"tool.execute"}
        sel == SelectSeq(tr, Kept)
    IN  [i \in DOMAIN sel |-> sel[i].ev]

\* C15: when a call got past resolve, authorize, validate and transform and
\* its tool body returned, the audit calls around the tool's execute are, in
\* this order, the granted access check, the invocation, [the execute], the
\* result; each is there once when a logger is present and its own flag is
\* set and absent otherwise, whatever the other flags are.
C15_AuditOrderOnSuccess ==
    (pc = "done" /\ Calls("tool.execute") # {} /\ Raised("tool.execute") = {})
    => /\ AuditOrder(trace) =
            (IF audit_logger # "None" /\ audit_config.log_tool_access_checks
             THEN << "log_tool_access_check" >> ELSE << >>)
            \o (IF audit_logger # "None" /\ audit_config.log_tool_invocations
                THEN << "log_tool_invocation" >> ELSE << >>)
            \o << "tool.execute" >>
            \o (IF audit_logger # "None" /\ audit_config.log_tool_results
                THEN << "log_tool_result" >> ELSE << >>)
       /\ \A i \in Calls("log_tool_access_check") :
            /\ trace[i].data.access_granted = TRUE
            /\ trace[i].data.tool_name = tool_call.name
            /\ trace[i].data.user = context.user
       /\ \A i \in Calls("log_tool_invocation") \cup Calls("log_tool_result") :
            /\ trace[i].data.tool_call = tool_call
            /\ trace[i].data.user = context.user

\* only the invocation flag is set: the invocation is audited alone
C15_Witness ==
    /\ pc = "done"
    /\ outcome = "returned"
    /\ result.success = TRUE
    /\ audit_logger # "None"
    /\ ~audit_config.log_tool_access_checks
    /\ audit_config.log_tool_invocations
    /\ ~audit_config.log_tool_results
    /\ AuditOrder(trace) = << "log_tool_invocation", "tool.execute" >>

\* every flag is set: the three of them around the execute
C15_WitnessAll ==
    /\ pc = "done"
    /\ outcome = "returned"
    /\ result.success = TRUE
    /\ AuditOrder(trace) = << "log_tool_access_check", "log_tool_invocation",
                              "tool.execute", "log_tool_result" >>

\* the groups the catalog entry t asks for: the list given at registration
\* when there was one, the tool's own otherwise
EffectiveGroups(t) ==
    IF IsWrapper(t) THEN t._access_groups ELSE t.access_groups

\* the access rule refuses user on the entry t
RuleDenies(t, user) ==
    /\ EffectiveGroups(t) # << >>
    /\ ToSet(EffectiveGroups(t)) \cap ToSet(user.group_memberships) = {}

\* C16: a call denied at authorize makes exactly one audit call when a logger
\* is present and log_tool_access_checks is set: the access check with
\* access_granted false, the entry's effective groups and the denial message,
\* made before the denial is returned; otherwise it makes none. No invocation
\* or result is audited and no other collaborator is called.
C16_DenialAudit ==
    (pc = "done" /\ tool # None /\ RuleDenies(tool, context.user))
    => LET msg == "Insufficient group access for tool '" \o tool_call.name \o "'"
       IN  IF audit_logger # "None" /\ audit_config.log_tool_access_checks
           THEN /\ Len(trace) = 1
                /\ trace[1].ev = "log_tool_access_check"
                /\ trace[1].data = [user |-> context.user,
                                    tool_name |-> tool_call.name,
                                    access_granted |-> FALSE,
                                    required_groups |-> EffectiveGroups(tool),
                                    reason |-> msg]
                /\ outcome = "returned" => IsFailure(result, msg)
                /\ outcome = "returned" <=> trace[1].how = "return"
           ELSE /\ trace = << >>
                /\ outcome = "returned"
                /\ IsFailure(result, msg)

C16_Witness ==
    /\ pc = "done"
    /\ outcome = "returned"
    /\ tool # None
    /\ IsWrapper(tool)
    /\ RuleDenies(tool, context.user)
    /\ context.user.group_memberships # << >>
    /\ Len(trace) = 1
    /\ trace[1].data.required_groups = <<"admin", "analyst">>

\* the same denial with the flag unset or no logger: nothing is audited
C16_WitnessSilent ==
    /\ pc = "done"
    /\ outcome = "returned"
    /\ tool # None
    /\ RuleDenies(tool, context.user)
    /\ audit_config.log_tool_invocations
    /\ audit_config.log_tool_results
    /\ trace = << >>

\* the metadata entries other than the timing stamp
Unstamped(metadata) == {kv \in metadata : kv[1] # "execution_time_ms"}

\* r is the tool's result R with nothing changed but the timing stamp
SameButStamp(r, R) ==
    /\ "success" \in DOMAIN r
    /\ r.success = R.success
    /\ r.result_for_llm = R.result_for_llm
    /\ r.ui_component = R.ui_component
    /\ r.error = R.error
    /\ Unstamped(r.metadata) = Unstamped(R.metadata)
    /\ \E kv \in r.metadata : kv[1] = "execution_time_ms"

\* C17: when the tool body returned a result R, execute returns R with
\* success, result_for_llm, ui_component and error as the tool set them and
\* nothing changed but the execution_time_ms entry of its metadata, under
\* every audit configuration.
C17_ToolResultReturnedAsIs ==
    \A i \in Calls("tool.execute") :
        (pc = "done" /\ trace[i].how = "return")
        => /\ outcome = "returned"
           /\ SameButStamp(result, trace[i].data.result)

\* the same statement for the calls whose result audit, if any, returned
C17_HoldsWhenResultAuditReturns ==
    \A i \in Calls("tool.execute") :
        (pc = "done" /\ trace[i].how = "return" /\ Raised("log_tool_result") = {})
        => /\ outcome = "returned"
           /\ SameButStamp(result, trace[i].data.result)

\* the place of a stage in execute's body
PcRank(p) ==
    CASE p = "idle" -> 0
      [] p = "authorize" -> 2
      [] p = "validate" -> 3
      [] p = "transform" -> 5
      [] p = "audit_access" -> 6
      [] p = "audit_invocation" -> 7
      [] p = "execute" -> 8
      [] p = "audit_result" -> 9
      [] p = "done" -> 10

\* the place of the stage that makes the collaborator call e
EventRank(e) ==
    CASE e.ev = "log_tool_access_check" ->
             IF e.data.access_granted THEN 6 ELSE 2
      [] e.ev = "get_args_schema" -> 3
      [] e.ev = "model_validate" -> 4
      [] e.ev = "transform_args" -> 5
      [] e.ev = "log_tool_invocation" -> 7
      [] e.ev = "tool.execute" -> 8
      [] e.ev = "log_tool_result" -> 9

\* the call e is one that ends the invocation: it raised, it audited a
\* denial, or it is a transformation that refused
EndsCall(e) ==
    \/ e.how # "return"
    \/ e.ev = "log_tool_access_check" /\ ~e.data.access_granted

StagesInOrder ==
    /\ \A i, j \in DOMAIN trace : i < j => EventRank(trace[i]) < EventRank(trace[j])
    /\ \A i \in DOMAIN trace : EventRank(trace[i]) < PcRank(pc)
    /\ \A i \in DOMAIN trace : EndsCall(trace[i]) => (i = Len(trace) /\ pc = "done")
    /\ \A i \in Calls("transform_args") :
         /\ \E k \in Calls("model_validate") : k < i /\ trace[k].how = "return"
         /\ "text" \in DOMAIN tool_call.arguments
         /\ tool_call.arguments.text[1] = "str"
         /\ trace[i].data.args =
                [model |-> Unwrapped(tool).args_schema,
                 text |-> tool_call.arguments.text[2]]
    /\ \A j \in Calls("tool.execute") :
         /\ \E i \in Calls("transform_args") :
              /\ i < j
              /\ trace[i].how = "return"
              /\ trace[j].data.args = trace[i].data.out.value
         /\ trace[j].data.context = context

\* C18: the stages of a call run in the order resolve, authorize, validate,
\* transform, audit before, tool execute, stamp and audit after, each at most
\* once and never going back, and the first stage that fails ends the call;
\* transform_args is handed what validation made of tool_call.arguments, and
\* the tool's execute is handed what transform_args returned.
C18_StagesInOrder ==
    /\ []StagesInOrder
    /\ [][(pc' # pc /\ pc \notin {"idle", "done"}) => PcRank(pc') > PcRank(pc)]_vars

C18_Witness ==
    /\ pc = "done"
    /\ outcome = "returned"
    /\ result.success = TRUE
    /\ \E i \in Calls("transform_args"), j \in Calls("tool.execute") :
         /\ trace[j].data.args = trace[i].data.out.value
         /\ trace[j].data.args # trace[i].data.args

----------------------------------------------------------------------------
(* What one execute call gives when it runs alone: execute's body read as  *)
(* a function from the call and the collaborators' answers to the way it   *)
(* ends, the result it returns and the collaborator calls it makes         *)

Final(how, r, tr) == [outcome |-> how, result |-> r, trace |-> tr]

\* one audit call, made when the logger is there and the flag is set
SoloEmit(flag, ev, data, tr) ==
    IF audit_logger # "None" /\ audit_config[flag]
    THEN {[how |-> h, trace |-> Append(tr, Event(ev, h, data))] : h \in Hows}
    ELSE {[how |-> "return", trace |-> tr]}

\* step 7
SoloAuditResult(tc, ctx, r, tr) ==
    { IF e.how = "raise"
      THEN Final("returned", Failure("Execution failed: " \o AuditFailure), e.trace)
      ELSE Final("returned", r, e.trace)
      : e \in SoloEmit("log_tool_results", "log_tool_result",
                       [user |-> ctx.user, tool_call |-> tc, result |-> r], tr) }

\* step 6
SoloTool(tc, ctx, t, a, tr) ==
    UNION { LET called == Append(tr, Event("tool.execute", body.how,
                                           [context |-> ctx, args |-> a,
                                            msg |-> body.msg,
                                            result |-> body.result]))
            IN  IF body.how = "raise"
                THEN {Final("returned", Failure("Execution failed: " \o body.msg),
                            called)}
                ELSE UNION { SoloAuditResult(tc, ctx,
                                             Stamp(body.result, elapsed * 1000),
                                             called)
                             : elapsed \in 0..MaxElapsed }
            : body \in ToolBody(Unwrapped(t), ctx, a) }

\* step 5
SoloAuditBefore(tc, ctx, t, a, tr) ==
    UNION { IF e1.how = "raise"
            THEN {Final("raised", None, e1.trace)}
            ELSE UNION { IF e2.how = "raise"
                         THEN {Final("raised", None, e2.trace)}
                         ELSE SoloTool(tc, ctx, t, a, e2.trace)
                         : e2 \in SoloEmit("log_tool_invocations",
                                           "log_tool_invocation",
                                           [user |-> ctx.user, tool_call |-> tc,
                                            ui_features |-> UiFeatures(ctx),
                                            sanitize_parameters |->
                                                audit_config.sanitize_tool_parameters],
                                           e1.trace) }
            : e1 \in SoloEmit("log_tool_access_checks", "log_tool_access_check",
                              [user |-> ctx.user, tool_name |-> tc.name,
                               access_granted |-> TRUE,
                               required_groups |-> EffectiveGroups(t),
                               reason |-> "None"], tr) }

\* step 4
SoloTransform(tc, ctx, t, a, tr) ==
    UNION { LET called == Append(tr, Event("transform_args", x.how,
                                           [args |-> a, out |-> x]))
            IN  IF x.how = "raise" THEN {Final("raised", None, called)}
                ELSE IF x.how = "reject"
                THEN {Final("returned", Failure(x.msg), called)}
                ELSE SoloAuditBefore(tc, ctx, t, x.value, called)
            : x \in TransformArgs(transform_impl, t, a, ctx.user, ctx) }

\* step 3
SoloValidate(tc, ctx, t) ==
    LET args_model == GetArgsSchema(t)
        validated == ModelValidate(args_model.model, tc.arguments)
    IN  IF args_model.raised
        THEN {Final("returned", Failure("Invalid arguments: " \o args_model.msg),
                    << Event("get_args_schema", "raise", None) >>)}
        ELSE IF validated.raised
        THEN {Final("returned", Failure("Invalid arguments: " \o validated.msg),
                    << Event("get_args_schema", "return", None),
                       Event("model_validate", "raise",
                             [arguments |-> tc.arguments]) >>)}
        ELSE SoloTransform(tc, ctx, t, validated.value,
                           << Event("get_args_schema", "return", None),
                              Event("model_validate", "return",
                                    [arguments |-> tc.arguments]) >>)

\* step 2
SoloAuthorize(tc, ctx, t) ==
    LET msg == "Insufficient group access for tool '" \o tc.name \o "'"
    IN  IF RuleDenies(t, ctx.user)
        THEN { IF e.how = "raise"
               THEN Final("raised", None, e.trace)
               ELSE Final("returned", Failure(msg), e.trace)
               : e \in SoloEmit("log_tool_access_checks", "log_tool_access_check",
                                [user |-> ctx.user, tool_name |-> tc.name,
                                 access_granted |-> FALSE,
                                 required_groups |-> EffectiveGroups(t),
                                 reason |-> msg], << >>) }
        ELSE SoloValidate(tc, ctx, t)

\* step 1 and the rest: every way execute(tc, ctx) can end on this registry
SoloRuns(tc, ctx) ==
    IF GetToolOf(_tools, tc.name) = None
    THEN {Final("returned", Failure("Tool '" \o tc.name \o "' not found"), << >>)}
    ELSE SoloAuthorize(tc, ctx, GetToolOf(_tools, tc.name))

\* the frame f of a finished call is one the call produces when run alone
AsAlone(f) ==
    f.pc = "done"
    => Final(f.outcome, f.result, f.trace) \in SoloRuns(f.tool_call, f.context)

\* C19: with the catalog fixed, execute calls that interleave at their
\* awaits each end as they would alone: same way of ending, same result,
\* same collaborator calls (its audit events among them) in the same order.
\* No step of one call changes the registry or the frame of another call: a
\* waiting frame is the one its coroutine had when it was last running, so
\* what holds of the running frame holds of the finished calls that wait.
C19_InterleavingIsInvisible ==
    /\ []AsAlone(Frame)
    /\ [][registry' = registry]_vars
    /\ [][suspended' # suspended
            => \E i \in DOMAIN suspended :
                 /\ suspended' = [suspended EXCEPT ![i] = Frame]
                 /\ Frame' = suspended[i]]_vars

\* a granted call has finished while a denied one, started after it, waits
\* between its steps; both then are finished
C19_Witness ==
    /\ pc = "done"
    /\ outcome = "returned"
    /\ IsFailure(result, "Insufficient group access for tool 'purge'")
    /\ \E i \in DOMAIN suspended :
         /\ suspended[i].pc = "done"
         /\ suspended[i].outcome = "returned"
         /\ suspended[i].result.success = TRUE
         /\ suspended[i].tool_call.name = "purge"
    /\ last.arg.context = context

\* two calls are between their steps at the same time
C19_WitnessInFlight ==
    /\ pc = "audit_result"
    /\ \E i \in DOMAIN suspended :
         /\ suspended[i].pc = "authorize"
         /\ suspended[i].context # context

\* a call run alone ends as SoloRuns says
SoloRunsCoverExecute == AsAlone(Frame)

\* the call ended at resolve, at validate or on a ToolRejection
ShortCircuited ==
    /\ pc = "done"
    /\ \/ tool = None
       \/ Raised("get_args_schema") # {}
       \/ Raised("model_validate") # {}
       \/ \E i \in Calls("transform_args") : trace[i].how = "reject"

\* the granted access check has been handed to the logger
GrantedAudited ==
    \E i \in Calls("log_tool_access_check") : trace[i].data.access_granted

\* and the logger took it
GrantedEmitted ==
    \E i \in Calls("log_tool_access_check") :
        trace[i].data.access_granted /\ trace[i].how = "return"

\* C20: a call that ends at resolve, at validate or on a ToolRejection has
\* emitted no audit event, whatever the flags; and the granted access check
\* is emitted only by calls that go on to the tool's execute.
C20_ShortCircuitsUnaudited ==
    /\ ShortCircuited => AuditCalls(trace) = {}
    /\ (pc = "done" /\ GrantedEmitted) => Calls("tool.execute") # {}

\* what holds of C20: the short circuits are silent, and a granted access
\* check is only emitted once transform_args has returned arguments
C20_ShortCircuitsSilent ==
    /\ ShortCircuited => AuditCalls(trace) = {}
    /\ GrantedAudited
       => \E i \in Calls("transform_args") :
            trace[i].how = "return" /\ PcRank(pc) > PcRank("audit_access")

C20_WitnessRejected ==
    /\ ShortCircuited
    /\ \E i \in Calls("transform_args") : trace[i].how = "reject"
    /\ audit_logger # "None"
    /\ audit_config.log_tool_access_checks
    /\ audit_config.log_tool_invocations
    /\ audit_config.log_tool_results

\* what execute was called with is what it still holds, and what it hands to
\* its collaborators
ArgumentsUntouched ==
    (last.op = "execute" /\ pc # "idle")
    => /\ tool_call = last.arg.tool_call
       /\ context = last.arg.context
       /\ \A i \in Calls("log_tool_invocation") \cup Calls("log_tool_result") :
            /\ trace[i].data.tool_call = last.arg.tool_call
            /\ trace[i].data.user = last.arg.context.user
       /\ \A i \in Calls("tool.execute") :
            trace[i].data.context = last.arg.context

\* the default transform_args gives back the validated arguments
DefaultTransformIsIdentity ==
    \A i \in Calls("transform_args") :
        /\ trace[i].how = "return"
        /\ trace[i].data.out.value = trace[i].data.args
        /\ \A j \in Calls("tool.execute") : trace[j].data.args = trace[i].data.args

\* C21: under the default transform_args an execute call leaves tool_call,
\* context and the user in it as they were when it was called, on every
\* path; the default transform_args returns the validated arguments as they
\* are; and no step of execute writes to the registry: what it writes is
\* the result it returns and the calls it makes to the audit logger.
C21_DefaultExecuteWritesNothing ==
    /\ [](transform_impl = "default"
            => (ArgumentsUntouched /\ DefaultTransformIsIdentity))
    /\ [][(transform_impl = "default" /\ pc' # "idle")
            => /\ registry' = registry
               /\ pc \notin {"idle", "done"}
                    => (tool_call' = tool_call /\ context' = context)]_vars

C21_Witness ==
    /\ transform_impl = "default"
    /\ pc = "done"
    /\ outcome = "returned"
    /\ result.success = TRUE
    /\ Calls("transform_args") # {}
    /\ Calls("log_tool_result") # {}
    /\ context.user.group_memberships # << >>
    /\ tool_call = last.arg.tool_call

\* the metadata holds a timing stamp
Stamped(metadata) == \E kv \in metadata : kv[1] = "execution_time_ms"

\* C22: an invocation emits at most one tool-result event, and only after
\* the tool body returned and its result was stamped: the event carries the
\* body's result with the stamp. When the tool body raises, the call returns
\* the "Execution failed" result, emits no tool-result event (an invocation
\* event already emitted stays unmatched), and the failure it returns has no
\* execution_time_ms.
C22_ResultEventAfterStamp ==
    /\ Cardinality(Calls("log_tool_result")) <= 1
    /\ \A i \in Calls("log_tool_result") :
         \E j \in Calls("tool.execute") :
            /\ j < i
            /\ trace[j].how = "return"
            /\ SameButStamp(trace[i].data.result, trace[j].data.result)
            /\ \E kv \in trace[i].data.result.metadata :
                 /\ kv[1] = "execution_time_ms"
                 /\ kv[2] >= 0
    /\ \A j \in Raised("tool.execute") :
         /\ pc = "done"
         /\ outcome = "returned"
         /\ IsFailure(result, "Execution failed: " \o trace[j].data.msg)
         /\ ~Stamped(result.metadata)
         /\ Calls("log_tool_result") = {}

\* the tool body raised after the invocation was audited
C22_Witness ==
    /\ pc = "done"
    /\ Raised("tool.execute") # {}
    /\ \E i \in Calls("log_tool_invocation") : trace[i].how = "return"
    /\ audit_config.log_tool_results
    /\ IsFailure(result, "Execution failed: boom")

\* the tool body returned and its stamped result was audited
C22_WitnessEmitted ==
    /\ pc = "done"
    /\ \E i \in Calls("log_tool_result") :
         /\ trace[i].how = "return"
         /\ <<"execution_time_ms", 1000>> \in trace[i].data.result.metadata
         /\ trace[i].data.result = result

\* the names of the registrations that succeeded, in call order
RegisteredNames == [i \in DOMAIN registered |-> registered[i].tool.name]

\* the entry the successful registration r created
EntryOf(r) ==
    IF Len(r.access_groups) > 0
    THEN [_wrapped_tool |-> r.tool, _access_groups |-> r.access_groups]
    ELSE r.tool

\* the first successful registration under name, 0 when there is none
FirstRegistration(name) ==
    IF \E i \in DOMAIN registered : registered[i].tool.name = name
    THEN CHOOSE i \in DOMAIN registered :
            /\ registered[i].tool.name = name
            /\ \A j \in DOMAIN registered :
                 registered[j].tool.name = name => i <= j
    ELSE 0

CatalogIsRegistrations ==
    /\ ListToolsOf(_tools) = RegisteredNames
    /\ \A i, j \in DOMAIN _tools : i # j => _tools[i].key # _tools[j].key
    /\ \A i \in DOMAIN _tools : _tools[i].key = ToolName(_tools[i].tool)
    /\ \A n \in Names :
         GetToolOf(_tools, n) =
            IF FirstRegistration(n) = 0 THEN None
            ELSE EntryOf(registered[FirstRegistration(n)])
    /\ last.op = "list_tools" => last.ret = RegisteredNames
    /\ last.op = "get_tool"
       => last.ret = IF FirstRegistration(last.arg.name) = 0 THEN None
                     ELSE EntryOf(registered[FirstRegistration(last.arg.name)])

\* C23: the catalog only grows. Whatever calls were made, list_tools gives
\* the names of the successful registrations, each once and in their order,
\* every name is the name of its tool, and get_tool gives the entry the first
\* successful registration of the name created; a step changes the catalog
\* only if it is a successful register_local_tool, which adds one name and
\* leaves every other binding as it was.
C23_CatalogOnlyGrows ==
    /\ []CatalogIsRegistrations
    /\ [][_tools' # _tools
            => /\ last'.op = "register_local_tool"
               /\ ~last'.raised
               /\ Len(_tools') = Len(_tools) + 1
               /\ \A i \in DOMAIN _tools : _tools'[i] = _tools[i]]_vars

\* two registrations succeeded: both names are listed, in registration order
C23_Witness ==
    /\ last.op = "list_tools"
    /\ last.ret = << "purge", "echo" >>
    /\ Len(registered) = 2
    /\ IsWrapper(GetToolOf(_tools, "purge"))

\* get_tool gives the tool that was registered under the name
C23_WitnessGetTool ==
    /\ last.op = "get_tool"
    /\ last.arg.name = "echo"
    /\ last.ret = EchoAnalystTool
    /\ Len(registered) = 2

\* get_schemas(user) returns, and the schema named name is in what it returns
Listed(name, user) ==
    /\ ~GetSchemasOf(_tools, user).raised
    /\ \E i \in DOMAIN GetSchemasOf(_tools, user).ret :
         GetSchemasOf(_tools, user).ret[i].name = name

\* the schemas get_schemas(user) returns publish the effective groups
PublishedGroupsAreEffective(user) ==
    \A i \in DOMAIN GetSchemasOf(_tools, user).ret :
        LET schema == GetSchemasOf(_tools, user).ret[i]
        IN  /\ GetToolOf(_tools, schema.name) # None
            /\ schema.access_groups = EffectiveGroups(GetToolOf(_tools, schema.name))

\* the call ended with the insufficient-group-access result
EndedDenied ==
    /\ outcome = "returned"
    /\ IsFailure(result,
                 "Insufficient group access for tool '" \o tool_call.name \o "'")

\* C24: for a registered tool and a user whose listing get_schemas returns,
\* the tool's schema is in the listing exactly when an execute call naming
\* the tool for that user does not end with the insufficient-group-access
\* result; and the access_groups a schema publishes are the effective groups
\* of its entry, those the access check evaluates.
C24_ListingAgreesWithExecute ==
    (pc = "done" /\ tool # None /\ ~GetSchemasOf(_tools, context.user).raised)
    => /\ Listed(tool_call.name, context.user) <=> ~EndedDenied
       /\ PublishedGroupsAreEffective(context.user)
       /\ \A i \in Calls("log_tool_access_check") :
            trace[i].data.required_groups = EffectiveGroups(tool)

\* what holds of C24: the listing and the access check of execute decide
\* alike, and a call that is not listed for its user ends at authorize,
\* with the denial when it returns
C24_ListingAgreesWithAuthorize ==
    (pc = "done" /\ tool # None /\ ~GetSchemasOf(_tools, context.user).raised)
    => /\ Listed(tool_call.name, context.user) <=> ~RuleDenies(tool, context.user)
       /\ ~Listed(tool_call.name, context.user)
            => /\ AuditOrder(trace) \in {<< >>, << "log_tool_access_check" >>}
               /\ Calls("get_args_schema") = {}
               /\ outcome = "returned" => EndedDenied
       /\ Listed(tool_call.name, context.user) => ~EndedDenied
       /\ PublishedGroupsAreEffective(context.user)
       /\ \A i \in Calls("log_tool_access_check") :
            trace[i].data.required_groups = EffectiveGroups(tool)

\* a wrapped tool, listed for the user and executed for them
C24_WitnessListed ==
    /\ pc = "done"
    /\ tool # None
    /\ IsWrapper(tool)
    /\ Listed(tool_call.name, context.user)
    /\ outcome = "returned"
    /\ result.success = TRUE

\* a tool hidden from the user's listing and refused to them
C24_WitnessHidden ==
    /\ pc = "done"
    /\ tool # None
    /\ ~GetSchemasOf(_tools, context.user).raised
    /\ Len(GetSchemasOf(_tools, context.user).ret) = 1
    /\ ~Listed(tool_call.name, context.user)
    /\ EndedDenied

====
